---- MODULE Spec2Model ----
(***************************************************************************)
(* The ModelInitializer singleton of src/services/modelInitializer.ts,     *)
(* run on the JavaScript event loop.                                       *)
(*                                                                         *)
(* One step of the model is one run-to-completion segment of the code:     *)
(* the synchronous part of a public call, one continuation after an await  *)
(* (a microtask), one expired timer, or one worker message handler.  The   *)
(* microtask queue `micro` is drained before the next timer or message     *)
(* runs.  A pending timer carries the time left until it is due, in units  *)
(* of 50 ms, counted from the earliest pending timer.  A worker posts its   *)
(* messages at the times its own timers give, counted from the request;    *)
(* the next message of a channel is a pending timer like any other.        *)
(***************************************************************************)
EXTENDS Integers, Sequences, FiniteSets, TLC

\* ------------------------------------------------------------ bounds
\* Largest number of registered status callbacks.
MaxSubs == 2
\* Largest input sequence handed to batchPredict.
MaxInputs == 11
\* Clock ticks the model follows once the instance is ready.
MaxTicks == 1
\* The requests posted to a worker script: chunkSize and totalItems of
\* loadData, epochs of trainModel.
MaxChunkSize == 3
MaxTotalItems == 7
MaxEpochs == 5

\* ------------------------------------------------- program constants
\* setTimeout delays, in units of 50 ms.
ChunkDelay == 2
TrainDelay == 40
FinalizeDelay == 10
LoadTimeMin == 10
LoadTimeMax == 30
\* The delays of the two workers: per chunk, per epoch.
DataWorkerDelay == 1
EpochDelay == 4
\* loadModel draws Math.random() * 1000 + 500 ms; the model follows the two
\* ends of that range (equal due times fire in either order).
LoadTimes == {LoadTimeMin, LoadTimeMax}
\* loadDataInChunks, in-process fallback.
TotalChunks == 10
\* Payload of the loadData and trainModel requests.
ChunkSize == 1000
TotalItems == 10000
Epochs == 10
\* batchPredict.
BatchSize == 10

criticalModels == <<"wildfire-risk-v3", "fire-spread-v2">>

\* The two call sites of initializeAllModels, by the argument each passes:
\* 1 is ModelInitializationStatus (no argument), 2 is AppContent.
Runs == {1, 2}
PriorityModelsOf(r) == IF r = 1 THEN <<>> ELSE <<"wildfire-risk-v3">>

\* What a status callback may do with the object it is handed.
Behaviours == {"return", "throw", "mutate"}

Off == -1

VARIABLES
    \* fields of ModelInitializer
    isInitialized, initializationStartTime, errors, currentStep, progress,
    statusCallbacks, loadedModels, backgroundInitializationPromise,
    dataWorker, trainingWorker,
    \* host: typeof Worker !== 'undefined', and Date.now()
    workerSupported, now, ticks,
    \* the calls of initializeAllModels in flight, their background tasks,
    \* the microtask queue and the pending timers
    run, bg, micro, timers,
    \* observations: per callback the last snapshot handed to it, the last
    \* updateStatus call, the last value returned to a caller of the public
    \* surface, background promises that rejected with no handler attached,
    \* and the batchPredict call in flight
    delivered, upd, ret, unhandled, batch,
    \* a worker script: the request it was posted, where its loop is, and the
    \* messages it has posted back
    worker

vars == <<isInitialized, initializationStartTime, errors, currentStep, progress,
          statusCallbacks, loadedModels, backgroundInitializationPromise,
          dataWorker, trainingWorker, workerSupported, now, ticks,
          run, bg, micro, timers, delivered, upd, ret, unhandled, batch, worker>>

fields == <<isInitialized, initializationStartTime, errors, currentStep, progress,
            loadedModels, backgroundInitializationPromise, dataWorker, trainingWorker>>

\* ------------------------------------------------------------ helpers
Min(a, b) == IF a < b THEN a ELSE b

\* Math.round of the non-negative rational num / den.
Round(num, den) == (2 * num + den) \div (2 * den)

Step(label, model, n) == [label |-> label, model |-> model, n |-> n]

LoadError(modelName, cause) == [kind |-> "Failed to load model", model |-> modelName, cause |-> cause]
InitError(cause) == [kind |-> "Initialization failed", model |-> "", cause |-> cause]

Has(seq, x) == \E i \in 1..Len(seq) : seq[i] = x

\* An add that does not test membership: an array push.
SetAddAppends(seq, x) == Append(seq, x)

\* Set.prototype.add on a Set kept in insertion order.
SetAdd(seq, x) == IF Has(seq, x) THEN seq ELSE Append(seq, x)

NoSnapshot == [none |-> TRUE]

\* getStatus(): a new object; errors and modelNames are new arrays.
\* initializationTime is in clock ticks.
GetStatus ==
    [isInitialized |-> isInitialized,
     totalModels |-> Len(criticalModels),
     loadedModels |-> Len(loadedModels),
     initializationTime |-> IF initializationStartTime > 0
                            THEN now - initializationStartTime ELSE 0,
     errors |-> errors,
     modelStats |-> [totalParameters |-> 0, averageAccuracy |-> 0,
                     modelNames |-> loadedModels],
     currentStep |-> currentStep,
     progress |-> progress]

\* getStatus() evaluated after the listed fields were assigned.
StatusWith(init, errs, prog) ==
    [GetStatus EXCEPT !.isInitialized = init, !.errors = errs, !.progress = prog]

\* What a misbehaving callback does to the object it was handed.
Mutate(s) ==
    [s EXCEPT !.progress = 0,
              !.errors = Append(@, InitError("tampered")),
              !.modelStats = [@ EXCEPT !.modelNames = <<>>]]

RECURSIVE MutateTimes(_, _)
MutateTimes(s, k) == IF k = 0 THEN s ELSE MutateTimes(Mutate(s), k - 1)

\* The callbacks statusCallbacks.forEach reaches: all of them, or those up
\* to and including the first that throws (forEach does not catch).
Invoked ==
    LET n == Len(statusCallbacks)
        throwers == {k \in 1..n : statusCallbacks[k] = "throw"}
    IN IF throwers = {} THEN 1..n
       ELSE {k \in 1..n : \A t \in throwers : k <= t}

\* updateStatus(updates): the fields
\* assigned, whether the call threw, and what each callback was handed.
\* newStatus is one object, passed to every callback in turn.
UpdateStatus(prog, step, init) ==
    LET status == [GetStatus EXCEPT !.isInitialized = init]
        newStatus == [status EXCEPT !.progress = prog, !.currentStep = step]
        inv == Invoked
        seen == [k \in inv |->
                    MutateTimes(newStatus,
                                Cardinality({j \in 1..(k - 1) : statusCallbacks[j] = "mutate"}))]
    IN [progress |-> prog,
        currentStep |-> step,
        threw |-> \E k \in inv : statusCallbacks[k] = "throw",
        delivered |-> [k \in 1..MaxSubs |-> IF k \in inv THEN seen[k] ELSE delivered[k]],
        upd |-> [merged |-> newStatus, n |-> Len(statusCallbacks),
                 invoked |-> inv, seen |-> seen,
                 threw |-> \E k \in inv : statusCallbacks[k] = "throw"]]

NoUpdate == [merged |-> NoSnapshot, n |-> 0, invoked |-> {}, seen |-> <<>>, threw |-> FALSE]
\* What the last call of the public surface handed its caller, and whether
\* the call before it was to the same operation.
NoRet == [op |-> "none", ok |-> TRUE, val |-> NoSnapshot, again |-> FALSE]
Return(op, ok, val) == [op |-> op, ok |-> ok, val |-> val, again |-> ret.op = op]

IdleRun == [pc |-> "idle", i |-> 0, loaded |-> "none", awaits |-> 0, created |-> {},
            workers |-> FALSE, threw |-> FALSE, failed |-> {}, caught |-> FALSE,
            outcome |-> "none", result |-> NoSnapshot]
NoBg == [state |-> "none", handled |-> FALSE, data |-> "none", train |-> "none",
         chunk |-> 0, dataMsgs |-> 0, trainMsgs |-> 0, dataFault |-> FALSE,
         trainFault |-> FALSE, reason |-> "none",
         stopped |-> [w \in {"data", "training"} |-> "no"]]
TimerIds == Runs \X {"load", "final", "chunk", "train", "dataMsg", "trainMsg"}
NoBatch == [pc |-> "idle", inputs |-> 0, i |-> 0, results |-> <<>>, pending |-> <<>>,
            log |-> <<>>]

\* A worker script that has been posted no request.
IdleWorker == [script |-> "none", type |-> "none", chunkSize |-> 0, totalItems |-> 0,
               epochs |-> 0, data |-> "none", pc |-> "idle", i |-> 0, out |-> <<>>]

Init ==
    /\ isInitialized = FALSE
    /\ initializationStartTime = 0
    /\ errors = <<>>
    /\ currentStep = Step("Initializing...", "", 0)
    /\ progress = 0
    /\ statusCallbacks = <<>>
    /\ loadedModels = <<>>
    /\ backgroundInitializationPromise = 0
    /\ dataWorker = 0
    /\ trainingWorker = 0
    /\ workerSupported \in BOOLEAN
    /\ now = 1
    /\ ticks = 0
    /\ run = [r \in Runs |-> IdleRun]
    /\ bg = [r \in Runs |-> NoBg]
    /\ micro = <<>>
    /\ timers = [t \in TimerIds |-> Off]
    /\ delivered = [k \in 1..MaxSubs |-> NoSnapshot]
    /\ upd = NoUpdate
    /\ ret = NoRet
    /\ unhandled = {}
    /\ batch = NoBatch
    /\ worker = IdleWorker

\* ------------------------------------------------------------ event loop
Pending(T) == {t \in TimerIds : T[t] # Off}

\* Time left is counted from the earliest pending timer.
Norm(T) ==
    IF Pending(T) = {} THEN T
    ELSE LET first == CHOOSE t \in Pending(T) : \A u \in Pending(T) : T[t] <= T[u]
         IN [t \in TimerIds |-> IF T[t] = Off THEN Off ELSE T[t] - T[first]]

\* The timers T at the end of a step that leaves the microtask queue q: a
\* queue that is empty hands control back to the event loop.
AtEnd(T, q) == IF q = <<>> THEN Norm(T) ELSE T

\* A timer callback runs when the microtask queue is empty and no other
\* timer is due earlier.
CanFire(t) == /\ micro = <<>>
              /\ timers[t] # Off
              /\ \A u \in Pending(timers) : timers[t] <= timers[u]

\* The timers once t has expired.
Fire(t) == [u \in TimerIds |-> IF u = t \/ timers[u] = Off THEN Off
                               ELSE timers[u] - timers[t]]

IsNext(r, k) == micro # <<>> /\ Head(micro) = <<r, k>>

InFlight(r) == run[r].pc \notin {"idle", "done"}

\* ------------------------------------------------------------ progress
\* loadModels: the progress reported after names[i] (1-indexed) of n loaded:
\* modelProgress + progressIncrement * 0.8.
LoadProgress(i, n, startProgress, endProgress) ==
    LET progressIncrement == (endProgress - startProgress) \div n
        modelProgress == startProgress + (i - 1) * progressIncrement
    IN modelProgress + (progressIncrement * 8) \div 10

\* loadDataInChunks without a worker: chunk i (0-indexed).
FallbackDataProgress(i) == 20 + (Round(i * 100, TotalChunks) * 3) \div 10

\* dataWorker.js, loadDataChunks: the k-th progress message (k >= 1).
DataWorkerMessages == (TotalItems + ChunkSize - 1) \div ChunkSize
DataWorkerProgress(k) == Min(100, Round(k * ChunkSize * 100, TotalItems))
\* trainingWorker.js, trainModel: the progress message of epoch e.
TrainingWorkerProgress(e) == Round(e * 100, Epochs)

\* A mapping that scales the payload by 3 instead of 0.3.
DataProgressWide(p) == 20 + p * 3

\* The handlers of loadDataInChunks and trainModelsInBackground.
DataProgress(p) == 20 + (p * 3) \div 10
TrainingProgress(p) == 60 + (p * 4) \div 10

\* ------------------------------------------------------------ background promise
\* A join that, when one task fails, cancels the other.
SettledCancels(b) ==
    IF b.state # "pending" THEN b
    ELSE IF b.data = "err" \/ b.train = "err"
         THEN [b EXCEPT !.state = "rejected", !.data = "err", !.train = "err"]
    ELSE IF b.data = "ok" /\ b.train = "ok"
         THEN [b EXCEPT !.state = "resolved"]
    ELSE b

\* continueBackgroundInitialization: Promise.all over the two tasks settles
\* the background promise of run r once both tasks are done or one failed.
Settled(b) ==
    IF b.state # "pending" THEN b
    ELSE IF b.data = "err" \/ b.train = "err"
         THEN [b EXCEPT !.state = "rejected"]
    ELSE IF b.data = "ok" /\ b.train = "ok"
         THEN [b EXCEPT !.state = "resolved"]
    ELSE b

Settles(r, b) == bg[r].state = "pending" /\ Settled(b).state # "pending"

\* The calls suspended on the background promise of run r.
Awaiting(r) == {s \in Runs : run[s].pc = "awaitBg" /\ run[s].awaits = r}

RECURSIVE Resume(_)
Resume(S) == IF S = {} THEN <<>>
             ELSE LET s == CHOOSE x \in S : \A y \in S : x <= y
                  IN <<(<<s, "afterBg">>)>> \o Resume(S \ {s})

\* The microtask queue q once a background task of run r left its record as b.
Woken(r, b, q) == IF Settles(r, b) THEN q \o Resume(Awaiting(r)) ELSE q

\* A background task of run r took a step that left its record as b; q is
\* the microtask queue after that step.
BgStep(r, b, q) ==
    /\ bg' = [bg EXCEPT ![r] = Settled(b)]
    /\ micro' = Woken(r, b, q)
    /\ IF Settles(r, b)
       THEN /\ run' = [s \in Runs |-> IF s \in Awaiting(r)
                                      THEN [run[s] EXCEPT !.pc = "resumed"] ELSE run[s]]
            /\ unhandled' = IF Settled(b).state = "rejected" /\ ~b.handled
                            THEN unhandled \cup {r} ELSE unhandled
       ELSE UNCHANGED <<run, unhandled>>

\* ------------------------------------------------------------ initializeAllModels
\* initializeWorkers(): what `new Worker` does is the host's choice.
Constructions == IF workerSupported THEN {"ok", "dataThrows", "trainingThrows"} ELSE {"unsupported"}
Created(c) == CASE c = "ok" -> {"data", "training"}
                [] c = "trainingThrows" -> {"data"}
                [] OTHER -> {}

\* A loadModel without the membership test of line 301: every call waits for
\* its timer.
BeginLoadReloads(rec, i, loaded) ==
    [rec EXCEPT !.pc = "loading", !.i = i, !.loaded = "pending"]

\* loadModel(names[i]) up to its first await, evaluated with the set of
\* loaded models `loaded`: a model already in the set returns at once, any
\* other waits for its timer.
BeginLoad(rec, i, loaded) ==
    [rec EXCEPT !.pc = "loading", !.i = i,
                !.loaded = IF Has(loaded, criticalModels[i]) THEN "has" ELSE "pending"]

\* A guard that never finds the instance initialized.
AlreadyInitializedNever == FALSE

\* The test of the guard of line 73.
AlreadyInitialized == isInitialized

\* The guard of line 73 is false: reset the run state and provision workers.
\* A call comes from a task of the event loop: with the microtask queue
\* empty, or in the task that made the other call.  A call that overlaps
\* another is followed on hosts without Worker support, with callbacks that
\* return normally.
Overlaps(r) == \E q \in Runs \ {r} : run[q].pc # "idle"

Call(r) ==
    /\ run[r].pc = "idle"
    /\ micro = <<>> \/ \E q \in Runs : micro = <<(<<q, "afterWorkers">>)>>
    /\ Overlaps(r) => /\ ~workerSupported
                      /\ \A k \in 1..Len(statusCallbacks) : statusCallbacks[k] = "return"
    /\ ~AlreadyInitialized
    /\ \E c \in Constructions :
          run' = [run EXCEPT ![r] = [IdleRun EXCEPT !.pc = "workers",
                                                   !.created = Created(c),
                                                   !.workers = (c = "ok")]]
    /\ initializationStartTime' = now
    /\ isInitialized' = FALSE
    /\ errors' = <<>>
    /\ progress' = 0
    /\ loadedModels' = <<>>
    /\ micro' = Append(micro, <<r, "afterWorkers">>)
    /\ delivered' = [k \in 1..MaxSubs |-> NoSnapshot]
    /\ ret' = NoRet
    /\ UNCHANGED <<currentStep, statusCallbacks, backgroundInitializationPromise,
                   dataWorker, trainingWorker, workerSupported, worker, now, ticks, bg, timers,
                   upd, unhandled, batch>>

\* A guard that falls through to the reset of lines 77-81.
InitializeWhenReadyResets ==
    /\ isInitialized
    /\ errors' = <<>>
    /\ progress' = 0
    /\ loadedModels' = <<>>
    /\ ret' = Return("initializeAllModels", TRUE, StatusWith(isInitialized, <<>>, 0))
    /\ UNCHANGED <<isInitialized, initializationStartTime, currentStep,
                   backgroundInitializationPromise, dataWorker, trainingWorker,
                   statusCallbacks, workerSupported, worker, now, ticks, run, bg, micro,
                   timers, delivered, upd, unhandled, batch>>

\* The guard of line 73 is true.
InitializeWhenReady ==
    /\ AlreadyInitialized
    /\ ret' = Return("initializeAllModels", TRUE, GetStatus)
    /\ UNCHANGED <<fields, statusCallbacks, workerSupported, worker, now, ticks, run, bg, micro,
                   timers, delivered, upd, unhandled, batch>>

\* Lines 86-95: keep the handles, start the background continuation, call
\* loadModels, which runs to the first loadModel.
AfterWorkers(r) ==
    /\ IsNext(r, "afterWorkers")
    /\ dataWorker' = IF run[r].workers THEN r ELSE 0
    /\ trainingWorker' = IF run[r].workers THEN r ELSE 0
    /\ backgroundInitializationPromise' = r
    /\ bg' = [bg EXCEPT ![r] = [NoBg EXCEPT !.state = "pending"]]
    /\ run' = [run EXCEPT ![r] = BeginLoad(run[r], 1, loadedModels)]
    /\ micro' = Tail(micro) \o <<(<<r, "bgStart">>)>>
                 \o IF run'[r].loaded = "has" THEN <<(<<r, "loadCont">>)>> ELSE <<>>
    /\ \E loadTime \in LoadTimes :
          timers' = IF run'[r].loaded = "has" THEN timers
                    ELSE [timers EXCEPT ![<<r, "load">>] = loadTime]
    /\ ret' = NoRet
    /\ UNCHANGED <<isInitialized, initializationStartTime, errors, currentStep, progress,
                   statusCallbacks, loadedModels, workerSupported, worker, now, ticks, delivered,
                   upd, unhandled, batch>>

\* loadModel, line 307 onwards: the delay is over.  A load that fails is the
\* fault the catch of loadModels is there for; it is the environment's choice.
LoadTimer(r) ==
    /\ CanFire(<<r, "load">>)
    /\ timers' = Fire(<<r, "load">>)
    /\ \E failed \in BOOLEAN :
          /\ loadedModels' = IF failed THEN loadedModels
                             ELSE SetAdd(loadedModels, criticalModels[run[r].i])
          /\ run' = [run EXCEPT ![r] = [@ EXCEPT
                        !.loaded = IF failed THEN "fail" ELSE "ok",
                        !.failed = IF failed THEN @ \cup {criticalModels[run[r].i]} ELSE @]]
    /\ micro' = <<(<<r, "loadCont">>)>>
    /\ ret' = NoRet
    /\ UNCHANGED <<isInitialized, initializationStartTime, errors, currentStep, progress,
                   statusCallbacks, backgroundInitializationPromise, dataWorker,
                   trainingWorker, workerSupported, worker, now, ticks, bg, delivered, upd,
                   unhandled, batch>>

\* loadModels, lines 286-297: after `await this.loadModel(modelName)`.
LoadCont(r) ==
    /\ IsNext(r, "loadCont")
    /\ LET i == run[r].i
           n == Len(criticalModels)
           modelName == criticalModels[i]
       IN /\ IF run[r].loaded = "fail"
             THEN /\ errors' = Append(errors, LoadError(modelName, "load"))
                  /\ UNCHANGED <<progress, currentStep, delivered, upd>>
             ELSE LET u == UpdateStatus(LoadProgress(i, n, 0, 60),
                                           Step("Loaded model", modelName, 0),
                                           isInitialized)
                     IN /\ progress' = u.progress
                        /\ currentStep' = u.currentStep
                        /\ delivered' = u.delivered
                        /\ upd' = u.upd
                        /\ errors' = IF u.threw
                                     THEN Append(errors, LoadError(modelName, "callback"))
                                     ELSE errors
          /\ IF i < n
             THEN /\ run' = [run EXCEPT ![r] = BeginLoad(run[r], i + 1, loadedModels)]
                  /\ micro' = Tail(micro)
                               \o IF run'[r].loaded = "has" THEN <<(<<r, "loadCont">>)>> ELSE <<>>
                  /\ \E loadTime \in LoadTimes :
                        timers' = IF run'[r].loaded = "has" THEN AtEnd(timers, micro')
                                  ELSE AtEnd([timers EXCEPT ![<<r, "load">>] = loadTime], micro')
             ELSE /\ run' = [run EXCEPT ![r] = [@ EXCEPT !.pc = "loaded", !.loaded = "none"]]
                  /\ micro' = Append(Tail(micro), <<r, "afterLoad">>)
                  /\ UNCHANGED timers
    /\ ret' = NoRet
    /\ UNCHANGED <<isInitialized, initializationStartTime, statusCallbacks, loadedModels,
                   backgroundInitializationPromise, dataWorker, trainingWorker,
                   workerSupported, worker, now, ticks, bg, unhandled, batch>>

\* Lines 98-100: await the promise the field holds now.
AfterLoad(r) ==
    /\ IsNext(r, "afterLoad")
    /\ LET q == backgroundInitializationPromise
       IN /\ bg' = [bg EXCEPT ![q] = [@ EXCEPT !.handled = TRUE]]
          /\ IF bg[q].state = "pending"
             THEN /\ run' = [run EXCEPT ![r] = [@ EXCEPT !.pc = "awaitBg", !.awaits = q]]
                  /\ micro' = Tail(micro)
             ELSE /\ run' = [run EXCEPT ![r] = [@ EXCEPT !.pc = "resumed", !.awaits = q]]
                  /\ micro' = Append(Tail(micro), <<r, "afterBg">>)
    /\ timers' = AtEnd(timers, micro')
    /\ ret' = NoRet
    /\ UNCHANGED <<fields, statusCallbacks, workerSupported, worker, now, ticks, delivered, upd,
                   unhandled, batch>>

\* A catch block that rethrows.
CaughtRethrows(r, cause) ==
    /\ errors' = errors
    /\ isInitialized' = isInitialized
    /\ run' = [run EXCEPT ![r] = [@ EXCEPT !.pc = "done", !.outcome = "rejected",
                                           !.caught = TRUE, !.result = GetStatus]]

\* The catch of lines 105-113, entered with the error `cause`.
Caught(r, cause) ==
    /\ errors' = Append(errors, InitError(cause))
    /\ isInitialized' = TRUE
    /\ run' = [run EXCEPT ![r] = [@ EXCEPT !.pc = "done", !.outcome = "resolved",
                                           !.caught = TRUE,
                                           !.result = StatusWith(TRUE, errors', progress)]]

\* After `await this.backgroundInitializationPromise`: finalizeInitialization
\* starts its delay, or the rejection lands in the catch.
AfterBg(r) ==
    /\ IsNext(r, "afterBg")
    /\ micro' = Tail(micro)
    /\ IF bg[run[r].awaits].state = "resolved"
       THEN /\ run' = [run EXCEPT ![r] = [@ EXCEPT !.pc = "finalizing"]]
            /\ timers' = AtEnd([timers EXCEPT ![<<r, "final">>] = FinalizeDelay], micro')
            /\ UNCHANGED <<errors, isInitialized>>
       ELSE /\ Caught(r, bg[run[r].awaits].reason)
            /\ timers' = AtEnd(timers, micro')
    /\ ret' = NoRet
    /\ UNCHANGED <<initializationStartTime, currentStep, progress, statusCallbacks,
                   loadedModels, backgroundInitializationPromise, dataWorker,
                   trainingWorker, workerSupported, worker, now, ticks, bg, delivered, upd,
                   unhandled, batch>>

\* finalizeInitialization, lines 317-322.
FinalTimer(r) ==
    /\ CanFire(<<r, "final">>)
    /\ timers' = Fire(<<r, "final">>)
    /\ isInitialized' = TRUE
    /\ LET u == UpdateStatus(100, Step("Initialization complete", "", 0), TRUE)
          IN /\ progress' = u.progress
             /\ currentStep' = u.currentStep
             /\ delivered' = u.delivered
             /\ upd' = u.upd
             /\ run' = [run EXCEPT ![r] = [@ EXCEPT !.threw = u.threw]]
    /\ micro' = <<(<<r, "afterFinal">>)>>
    /\ ret' = NoRet
    /\ UNCHANGED <<initializationStartTime, errors, statusCallbacks, loadedModels,
                   backgroundInitializationPromise, dataWorker, trainingWorker,
                   workerSupported, worker, now, ticks, bg, unhandled, batch>>

\* After `await this.finalizeInitialization()`: return getStatus(), or the
\* catch when a callback threw inside finalizeInitialization.
AfterFinal(r) ==
    /\ IsNext(r, "afterFinal")
    /\ micro' = Tail(micro)
    /\ timers' = AtEnd(timers, micro')
    /\ IF run[r].threw
       THEN Caught(r, "callback")
       ELSE /\ run' = [run EXCEPT ![r] = [@ EXCEPT !.pc = "done", !.outcome = "resolved",
                                                  !.result = GetStatus]]
            /\ UNCHANGED <<errors, isInitialized>>
    /\ ret' = NoRet
    /\ UNCHANGED <<initializationStartTime, currentStep, progress, statusCallbacks,
                   loadedModels, backgroundInitializationPromise, dataWorker,
                   trainingWorker, workerSupported, worker, now, ticks, bg, delivered, upd,
                   unhandled, batch>>

\* ------------------------------------------------------------ background tasks
\* continueBackgroundInitialization after `await workersPromise`: both tasks
\* are called; each runs to its first await.
BgStart(r) ==
    /\ IsNext(r, "bgStart")
    /\ IF run[r].workers
       THEN \* listeners added, loadData and trainModel posted
            \* a worker answers a request with its stream of messages (the
            \* first chunk at once, the first epoch after its delay) or,
            \* from its onmessage handler, with { type: 'error' } at once
            /\ \E dataFault \in BOOLEAN, trainFault \in BOOLEAN :
                  /\ BgStep(r, [bg[r] EXCEPT !.data = "run", !.train = "run",
                                             !.dataFault = dataFault,
                                             !.trainFault = trainFault], Tail(micro))
                  /\ timers' = AtEnd([timers EXCEPT
                                         ![<<r, "dataMsg">>] = 0,
                                         ![<<r, "trainMsg">>] = IF trainFault THEN 0
                                                                ELSE EpochDelay], micro')
            /\ UNCHANGED <<progress, currentStep, delivered, upd>>
       ELSE \* chunk 0 is reported before the first delay
            LET u == UpdateStatus(FallbackDataProgress(0),
                                     Step("Loading data: Chunk", "", 1),
                                     isInitialized)
                b == [bg[r] EXCEPT !.data = IF u.threw THEN "err" ELSE "run",
                                   !.reason = IF u.threw THEN "callback" ELSE @,
                                   !.train = "run"]
                T == [timers EXCEPT ![<<r, "chunk">>] = IF u.threw THEN Off ELSE ChunkDelay,
                                    ![<<r, "train">>] = TrainDelay]
               IN /\ progress' = u.progress
                  /\ currentStep' = u.currentStep
                  /\ delivered' = u.delivered
                  /\ upd' = u.upd
                  /\ BgStep(r, b, Tail(micro))
                  /\ timers' = AtEnd(T, micro')
    /\ ret' = NoRet
    /\ UNCHANGED <<isInitialized, initializationStartTime, errors, statusCallbacks,
                   loadedModels, backgroundInitializationPromise, dataWorker,
                   trainingWorker, workerSupported, worker, now, ticks, batch>>

\* loadDataInChunks without a worker, lines 172-185: the delay after chunk
\* bg[r].chunk is over.
ChunkTimer(r) ==
    /\ CanFire(<<r, "chunk">>)
    /\ LET i == bg[r].chunk + 1
       IN IF i < TotalChunks
          THEN LET u == UpdateStatus(FallbackDataProgress(i),
                                        Step("Loading data: Chunk", "", i + 1),
                                        isInitialized)
                   b == [bg[r] EXCEPT !.chunk = i,
                                      !.data = IF u.threw THEN "err" ELSE "run",
                                      !.reason = IF u.threw /\ @ = "none" THEN "callback" ELSE @]
                   T == [Fire(<<r, "chunk">>) EXCEPT
                            ![<<r, "chunk">>] = IF u.threw THEN Off ELSE ChunkDelay]
                  IN /\ progress' = u.progress
                     /\ currentStep' = u.currentStep
                     /\ delivered' = u.delivered
                     /\ upd' = u.upd
                     /\ BgStep(r, b, micro)
                     /\ timers' = AtEnd(T, micro')
          ELSE /\ BgStep(r, [bg[r] EXCEPT !.chunk = i, !.data = "ok"], micro)
               /\ timers' = AtEnd(Fire(<<r, "chunk">>), micro')
               /\ UNCHANGED <<progress, currentStep, delivered, upd>>
    /\ ret' = NoRet
    /\ UNCHANGED <<isInitialized, initializationStartTime, errors, statusCallbacks,
                   loadedModels, backgroundInitializationPromise, dataWorker,
                   trainingWorker, workerSupported, worker, now, ticks, batch>>

\* trainModelsInBackground without a worker, lines 219-221.
TrainTimer(r) ==
    /\ CanFire(<<r, "train">>)
    /\ BgStep(r, [bg[r] EXCEPT !.train = "ok"], micro)
    /\ timers' = AtEnd(Fire(<<r, "train">>), micro')
    /\ ret' = NoRet
    /\ UNCHANGED <<fields, statusCallbacks, workerSupported, worker, now, ticks, delivered, upd,
                   batch>>

\* handleMessage of loadDataInChunks, lines 189-202, run for the next message
\* of the data worker: its progress messages in order, then dataLoaded.
DataProgressMessage(r) ==
    /\ CanFire(<<r, "dataMsg">>)
    /\ ~bg[r].dataFault
    /\ bg[r].dataMsgs < DataWorkerMessages
    /\ timers' = Norm([Fire(<<r, "dataMsg">>) EXCEPT ![<<r, "dataMsg">>] = DataWorkerDelay])
    /\ LET k == bg[r].dataMsgs + 1
              u == UpdateStatus(DataProgress(DataWorkerProgress(k)),
                                Step("Loading data: Loaded", "", k * ChunkSize),
                                isInitialized)
          IN /\ progress' = u.progress
             /\ currentStep' = u.currentStep
             /\ delivered' = u.delivered
             /\ upd' = u.upd
    /\ bg' = [bg EXCEPT ![r] = [@ EXCEPT !.dataMsgs = @ + 1]]
    /\ ret' = NoRet
    /\ UNCHANGED <<isInitialized, initializationStartTime, errors, statusCallbacks,
                   loadedModels, backgroundInitializationPromise, dataWorker,
                   trainingWorker, workerSupported, worker, now, ticks, run, micro,
                   unhandled, batch>>

DataLoadedMessage(r) ==
    /\ CanFire(<<r, "dataMsg">>)
    /\ ~bg[r].dataFault
    /\ bg[r].dataMsgs = DataWorkerMessages
    /\ BgStep(r, [bg[r] EXCEPT !.data = "ok"], micro)
    /\ timers' = AtEnd(Fire(<<r, "dataMsg">>), micro')
    /\ ret' = NoRet
    /\ UNCHANGED <<fields, statusCallbacks, workerSupported, worker, now, ticks, delivered, upd, batch>>

\* The data worker answered { type: 'error' }.
DataErrorMessage(r) ==
    /\ CanFire(<<r, "dataMsg">>)
    /\ bg[r].dataFault
    /\ BgStep(r, [bg[r] EXCEPT !.data = "err",
                               !.reason = IF @ = "none" THEN "data worker" ELSE @], micro)
    /\ timers' = AtEnd(Fire(<<r, "dataMsg">>), micro')
    /\ ret' = NoRet
    /\ UNCHANGED <<fields, statusCallbacks, workerSupported, worker, now, ticks, delivered, upd, batch>>

\* handleMessage of trainModelsInBackground, lines 225-238.
TrainingProgressMessage(r) ==
    /\ CanFire(<<r, "trainMsg">>)
    /\ ~bg[r].trainFault
    /\ bg[r].trainMsgs < Epochs
    /\ timers' = Norm([Fire(<<r, "trainMsg">>) EXCEPT
                          ![<<r, "trainMsg">>] = IF bg[r].trainMsgs + 1 < Epochs
                                                 THEN EpochDelay ELSE 0])
    /\ LET e == bg[r].trainMsgs + 1
              u == UpdateStatus(TrainingProgress(TrainingWorkerProgress(e)),
                                Step("Training: Epoch", "", e),
                                isInitialized)
          IN /\ progress' = u.progress
             /\ currentStep' = u.currentStep
             /\ delivered' = u.delivered
             /\ upd' = u.upd
    /\ bg' = [bg EXCEPT ![r] = [@ EXCEPT !.trainMsgs = @ + 1]]
    /\ ret' = NoRet
    /\ UNCHANGED <<isInitialized, initializationStartTime, errors, statusCallbacks,
                   loadedModels, backgroundInitializationPromise, dataWorker,
                   trainingWorker, workerSupported, worker, now, ticks, run, micro,
                   unhandled, batch>>

TrainingCompleteMessage(r) ==
    /\ CanFire(<<r, "trainMsg">>)
    /\ ~bg[r].trainFault
    /\ bg[r].trainMsgs = Epochs
    /\ BgStep(r, [bg[r] EXCEPT !.train = "ok"], micro)
    /\ timers' = AtEnd(Fire(<<r, "trainMsg">>), micro')
    /\ ret' = NoRet
    /\ UNCHANGED <<fields, statusCallbacks, workerSupported, worker, now, ticks, delivered, upd, batch>>

\* The training worker answered { type: 'error' }.
TrainingErrorMessage(r) ==
    /\ CanFire(<<r, "trainMsg">>)
    /\ bg[r].trainFault
    /\ BgStep(r, [bg[r] EXCEPT !.train = "err",
                               !.reason = IF @ = "none" THEN "training worker" ELSE @], micro)
    /\ timers' = AtEnd(Fire(<<r, "trainMsg">>), micro')
    /\ ret' = NoRet
    /\ UNCHANGED <<fields, statusCallbacks, workerSupported, worker, now, ticks, delivered, upd, batch>>

\* ------------------------------------------------------------ a worker that stops
\* The timer that stands for the next message of a worker.
MessageOf(workerType) == IF workerType = "data" THEN "dataMsg" ELSE "trainMsg"

\* What the instance is left with when a worker of run r stops in place of
\* its next message and sends nothing from then on.  No statement of the
\* class reacts: loadDataInChunks and trainModelsInBackground settle on a
\* terminal message only (lines 195-201 and 230-236).
WorkerStops(r, workerType, how) ==
    /\ bg' = [bg EXCEPT ![r] = [@ EXCEPT !.stopped = [@ EXCEPT ![workerType] = how]]]
    /\ timers' = Norm(Fire(<<r, MessageOf(workerType)>>))
    /\ ret' = NoRet
    /\ UNCHANGED <<fields, statusCallbacks, workerSupported, worker, now, ticks, run, micro,
                   delivered, upd, unhandled, batch>>

\* handleWorkerError, lines 149-153, run by worker.onerror after
\* initializeWorkers resolved at line 159: it logs and calls resolve again,
\* which does nothing to a promise already resolved.
HandleWorkerError(r, workerType) ==
    /\ CanFire(<<r, MessageOf(workerType)>>)
    /\ bg[r].stopped[workerType] = "no"
    /\ WorkerStops(r, workerType, "error")

\* A worker that hangs: no message and no error event.
WorkerHangs(r, workerType) ==
    /\ CanFire(<<r, MessageOf(workerType)>>)
    /\ bg[r].stopped[workerType] = "no"
    /\ WorkerStops(r, workerType, "silent")

\* ------------------------------------------------------------ the worker scripts
\* dataWorker.js and the training worker, each followed from the request it
\* is posted to the last message it posts back.  The payload of a request
\* carries chunkSize and totalItems (loadData), epochs and trainingData
\* (trainModel) or testData (validateModel); the data is absent ("none"), an
\* empty array ("empty") or an array of samples ("samples").
DataRequests == {"loadData", "processData", "unknown"}
TrainingRequests == {"trainModel", "validateModel", "unknown"}
PayloadData == {"none", "empty", "samples"}

Message(type, p) == [type |-> type, progress |-> p]

\* dataWorker.js line 60 and training worker line 41.
ChunkProgress(i, chunkSize, totalItems) == Min(100, Round((i + chunkSize) * 100, totalItems))
EpochProgress(epoch, epochs) == Round(epoch * 100, epochs)

\* self.onmessage of dataWorker.js, lines 5-29.  loadDataChunks runs up to
\* its first await: the first chunk is reported at once; with nothing to load
\* it returns and the then-callback of line 18 posts dataLoaded.
DataWorkerOnMessage(type, chunkSize, totalItems) ==
    /\ worker.pc = "idle"
    /\ LET w == [IdleWorker EXCEPT !.script = "data", !.type = type,
                                   !.chunkSize = chunkSize, !.totalItems = totalItems]
       IN worker' =
             CASE type = "loadData" ->
                    IF 0 < totalItems
                    THEN [w EXCEPT !.pc = "loop", !.i = chunkSize,
                                   !.out = <<Message("progress",
                                                     ChunkProgress(0, chunkSize, totalItems))>>]
                    ELSE [w EXCEPT !.pc = "done", !.out = <<Message("dataLoaded", 0)>>]
               [] type = "processData" ->
                    [w EXCEPT !.pc = "done", !.out = <<Message("dataProcessed", 0)>>]
               [] OTHER ->
                    [w EXCEPT !.pc = "done", !.out = <<Message("error", 0)>>]
    /\ UNCHANGED <<fields, statusCallbacks, workerSupported, now, ticks, run, bg, micro,
                   timers, delivered, upd, ret, unhandled, batch>>

\* loadDataChunks, lines 45-74: the delay of line 67 is over.
LoadDataChunks ==
    /\ worker.script = "data"
    /\ worker.pc = "loop"
    /\ worker' =
          IF worker.i < worker.totalItems
          THEN [worker EXCEPT !.i = @ + worker.chunkSize,
                              !.out = Append(@, Message("progress",
                                                ChunkProgress(worker.i, worker.chunkSize,
                                                              worker.totalItems)))]
          ELSE [worker EXCEPT !.pc = "done", !.out = Append(@, Message("dataLoaded", 0))]
    /\ UNCHANGED <<fields, statusCallbacks, workerSupported, now, ticks, run, bg, micro,
                   timers, delivered, upd, ret, unhandled, batch>>

\* trainModel from line 61: the result is built and the then-callback of
\* line 12 posts trainingComplete.  With an empty trainingData, line 73 reads
\* trainingData[0].input of undefined: the promise of trainModel rejects,
\* nothing catches it and nothing is posted.
TrainModelReturns(w) ==
    IF w.data = "empty"
    THEN [w EXCEPT !.pc = "failed"]
    ELSE [w EXCEPT !.pc = "done", !.out = Append(@, Message("trainingComplete", 0))]

\* self.onmessage of the training worker, lines 5-29.  validateModel reads
\* testData.length at line 105, which throws into the catch of line 26 when
\* testData is absent.
TrainingWorkerOnMessage(type, epochs, data) ==
    /\ worker.pc = "idle"
    /\ LET w == [IdleWorker EXCEPT !.script = "training", !.type = type,
                                   !.epochs = epochs, !.data = data]
       IN worker' =
             CASE type = "trainModel" ->
                    IF 1 <= epochs
                    THEN [w EXCEPT !.pc = "loop", !.i = 1]
                    ELSE TrainModelReturns(w)
               [] type = "validateModel" ->
                    IF data = "none"
                    THEN [w EXCEPT !.pc = "done", !.out = <<Message("error", 0)>>]
                    ELSE [w EXCEPT !.pc = "done",
                                   !.out = <<Message("validationComplete", 0)>>]
               [] OTHER ->
                    [w EXCEPT !.pc = "done", !.out = <<Message("error", 0)>>]
    /\ UNCHANGED <<fields, statusCallbacks, workerSupported, now, ticks, run, bg, micro,
                   timers, delivered, upd, ret, unhandled, batch>>

\* trainModel, lines 36-59: the delay of line 38 of epoch worker.i is over.
TrainModel ==
    /\ worker.script = "training"
    /\ worker.pc = "loop"
    /\ LET posted == [worker EXCEPT
                         !.out = Append(@, Message("trainingProgress",
                                                   EpochProgress(worker.i, worker.epochs)))]
       IN worker' = IF worker.i + 1 <= worker.epochs
                    THEN [posted EXCEPT !.i = @ + 1]
                    ELSE TrainModelReturns(posted)
    /\ UNCHANGED <<fields, statusCallbacks, workerSupported, now, ticks, run, bg, micro,
                   timers, delivered, upd, ret, unhandled, batch>>

\* ------------------------------------------------------------ the rest of the surface
\* onStatusUpdate(callback): a callback is known by what it does when called.
\* Callbacks are registered while no call of initializeAllModels is in flight.
OnStatusUpdate(callback) ==
    /\ Len(statusCallbacks) < MaxSubs
    /\ \A r \in Runs : ~InFlight(r)
    /\ statusCallbacks' = Append(statusCallbacks, callback)
    /\ ret' = NoRet
    /\ UNCHANGED <<fields, workerSupported, worker, now, ticks, run, bg, micro, timers, delivered,
                   upd, unhandled, batch>>

\* Date.now() moves on.  The clock is followed once the instance is ready
\* and nothing is pending, where two reads of it are compared.
Tick ==
    /\ isInitialized
    /\ micro = <<>> /\ Pending(timers) = {}
    /\ ticks < MaxTicks
    /\ now' = now + 1
    /\ ticks' = ticks + 1
    /\ UNCHANGED <<fields, statusCallbacks, workerSupported, worker, run, bg, micro, timers,
                   delivered, upd, ret, unhandled, batch>>

\* ------------------------------------------------------------ downstream handoff
\* A guard that never fires.
NotInitializedNever == FALSE

\* The guard of makePrediction and batchPredict, lines 356 and 369.
NotInitialized == ~isInitialized
ModelNotInitialized == [error |-> "Model not initialized"]

\* The object makePrediction resolves with; its fields are random numbers
\* and a timestamp, so the model tags it with the input it was made for.
Prediction(input) == [of |-> input]

\* A slice one element short.
SliceShort(i, n) == [j \in 1..(Min(i + BatchSize - 1, n) - i) |-> i + j]

\* inputs.slice(i, i + batchSize) of the inputs 1..n.
Slice(i, n) == [j \in 1..(Min(i + BatchSize, n) - i) |-> i + j]

\* batch.map(input => this.makePrediction(input)).
MapPredictions(inputs) == [j \in 1..Len(inputs) |-> Prediction(inputs[j])]

\* getModelMetadata(), lines 347-353.
ModelMetadata == <<[name |-> "wildfire-risk-v3", version |-> "1.0.0"],
                   [name |-> "fire-spread-v2", version |-> "2.1.0"]>>

GetModelMetadata ==
    /\ micro = <<>>
    /\ ret' = Return("getModelMetadata", TRUE, [metadata |-> ModelMetadata])
    /\ UNCHANGED <<fields, statusCallbacks, workerSupported, worker, now, ticks, run, bg, micro,
                   timers, delivered, upd, unhandled, batch>>

\* makePrediction(input), lines 355-366.
MakePrediction(input) ==
    /\ micro = <<>>
    /\ ret' = IF NotInitialized
              THEN Return("makePrediction", FALSE, ModelNotInitialized)
              ELSE Return("makePrediction", TRUE, Prediction(input))
    /\ UNCHANGED <<fields, statusCallbacks, workerSupported, worker, now, ticks, run, bg, micro,
                   timers, delivered, upd, unhandled, batch>>

\* batchPredict(inputs) on the inputs 1..n, up to its first await or to its
\* return.  One call is followed at a time.
BatchPredict(n) ==
    /\ micro = <<>>
    /\ batch.pc # "await"
    /\ IF NotInitialized
       THEN /\ ret' = Return("batchPredict", FALSE, ModelNotInitialized)
            /\ UNCHANGED <<batch, micro>>
       ELSE IF 0 < n
       THEN /\ batch' = [pc |-> "await", inputs |-> n, i |-> 0, results |-> <<>>,
                         pending |-> MapPredictions(Slice(0, n)), log |-> Slice(0, n)]
            /\ micro' = Append(micro, <<0, "batchCont">>)
            /\ ret' = NoRet
       ELSE /\ batch' = [NoBatch EXCEPT !.pc = "done"]
            /\ ret' = Return("batchPredict", TRUE, [results |-> <<>>])
            /\ UNCHANGED micro
    /\ UNCHANGED <<fields, statusCallbacks, workerSupported, worker, now, ticks, run, bg,
                   timers, delivered, upd, unhandled>>

\* batchPredict after `await Promise.all(...)`, lines 382-385.
BatchCont ==
    /\ IsNext(0, "batchCont")
    /\ LET results == batch.results \o batch.pending
           i == batch.i + BatchSize
           n == batch.inputs
       IN IF i < n
          THEN /\ batch' = [batch EXCEPT !.i = i, !.results = results,
                                         !.pending = MapPredictions(Slice(i, n)),
                                         !.log = @ \o Slice(i, n)]
               /\ micro' = Append(Tail(micro), <<0, "batchCont">>)
               /\ ret' = NoRet
          ELSE /\ batch' = [batch EXCEPT !.pc = "done", !.i = i, !.results = results,
                                         !.pending = <<>>]
               /\ micro' = Tail(micro)
               /\ ret' = Return("batchPredict", TRUE, [results |-> results])
    /\ timers' = AtEnd(timers, micro')
    /\ UNCHANGED <<fields, statusCallbacks, workerSupported, worker, now, ticks, run, bg,
                   delivered, upd, unhandled>>

Next ==
    \/ \E r \in Runs : Call(r)
    \/ InitializeWhenReady
    \/ \E r \in Runs : AfterWorkers(r)
    \/ \E r \in Runs : LoadTimer(r)
    \/ \E r \in Runs : LoadCont(r)
    \/ \E r \in Runs : AfterLoad(r)
    \/ \E r \in Runs : AfterBg(r)
    \/ \E r \in Runs : FinalTimer(r)
    \/ \E r \in Runs : AfterFinal(r)
    \/ \E r \in Runs : BgStart(r)
    \/ \E r \in Runs : ChunkTimer(r)
    \/ \E r \in Runs : TrainTimer(r)
    \/ \E r \in Runs : DataProgressMessage(r)
    \/ \E r \in Runs : DataLoadedMessage(r)
    \/ \E r \in Runs : DataErrorMessage(r)
    \/ \E r \in Runs : TrainingProgressMessage(r)
    \/ \E r \in Runs : TrainingCompleteMessage(r)
    \/ \E r \in Runs : TrainingErrorMessage(r)
    \/ \E callback \in Behaviours : OnStatusUpdate(callback)
    \/ Tick

Spec == Init /\ [][Next]_vars

\* One call of initializeAllModels on a host with Worker support, with
\* workers that may stop.
InitFault == Init /\ workerSupported

NextFault ==
    \/ Call(1)
    \/ AfterWorkers(1)
    \/ LoadTimer(1)
    \/ LoadCont(1)
    \/ AfterLoad(1)
    \/ AfterBg(1)
    \/ FinalTimer(1)
    \/ AfterFinal(1)
    \/ BgStart(1)
    \/ ChunkTimer(1)
    \/ TrainTimer(1)
    \/ DataProgressMessage(1)
    \/ DataLoadedMessage(1)
    \/ DataErrorMessage(1)
    \/ TrainingProgressMessage(1)
    \/ TrainingCompleteMessage(1)
    \/ TrainingErrorMessage(1)
    \/ \E workerType \in {"data", "training"} : HandleWorkerError(1, workerType)
    \/ \E workerType \in {"data", "training"} : WorkerHangs(1, workerType)

FaultSpec == InitFault /\ [][NextFault]_vars

\* One worker script answering one request.
InitWorker == Init /\ workerSupported

NextWorker ==
    \/ \E type \in DataRequests, chunkSize \in 1..MaxChunkSize, totalItems \in 0..MaxTotalItems :
          DataWorkerOnMessage(type, chunkSize, totalItems)
    \/ LoadDataChunks
    \/ \E type \in TrainingRequests, epochs \in 0..MaxEpochs, data \in PayloadData :
          TrainingWorkerOnMessage(type, epochs, data)
    \/ TrainModel

WorkerSpec == InitWorker /\ [][NextWorker]_vars

\* The downstream handoff, exercised around one call of initializeAllModels
\* on a host without Worker support.
InitSurface == Init /\ ~workerSupported

NextSurface ==
    \/ Call(1)
    \/ AfterWorkers(1)
    \/ LoadTimer(1)
    \/ LoadCont(1)
    \/ AfterLoad(1)
    \/ AfterBg(1)
    \/ FinalTimer(1)
    \/ AfterFinal(1)
    \/ BgStart(1)
    \/ ChunkTimer(1)
    \/ TrainTimer(1)
    \/ GetModelMetadata
    \/ \E input \in 1..MaxInputs : MakePrediction(input)
    \/ \E n \in 0..MaxInputs : BatchPredict(n)
    \/ BatchCont

SurfaceSpec == InitSurface /\ [][NextSurface]_vars

\* ------------------------------------------------------------ properties
\* C1: a call of initializeAllModels on an instance that is not ready never
\* rejects.  Whatever was thrown after the reset (an error answered by a
\* worker, a callback that threw in finalizeInitialization or in the
\* fallback chunk loop), the call resolves, the snapshot it resolves with has
\* isInitialized true, and when the catch block ran that snapshot carries an
\* "Initialization failed" entry.
C1_NeverRejects ==
    \A r \in Runs : run[r].pc = "done" =>
        /\ run[r].outcome = "resolved"
        /\ isInitialized
        /\ run[r].result.isInitialized
        /\ run[r].caught =>
              \E k \in 1..Len(run[r].result.errors) :
                  run[r].result.errors[k].kind = "Initialization failed"

\* A call on a host with workers resolved through the catch block, after the
\* training worker answered with an error.
C1_Witness ==
    \E r \in Runs : /\ run[r].pc = "done" /\ run[r].caught
                    /\ run[r].workers /\ bg[r].trainFault

\* A step that is a call of initializeAllModels with the guard of line 73 true.
GuardCall == ret'.op = "initializeAllModels" /\ now' = now

NoOp == UNCHANGED <<fields, statusCallbacks, run, bg, micro, timers, delivered, upd,
                    unhandled>>

SameButTime(a, b) == [a EXCEPT !.initializationTime = 0] = [b EXCEPT !.initializationTime = 0]

\* C2, as the code has it: a call of initializeAllModels on a ready instance
\* changes no field, notifies no callback, provisions no worker and returns
\* getStatus(); two such calls in a row return snapshots that agree in every
\* field but initializationTime, which getStatus computes from Date.now() at
\* each call.
C2_NoOpButTime ==
    [][GuardCall => /\ NoOp
                    /\ ret'.ok
                    /\ ret'.val = GetStatus
                    /\ ret'.again => SameButTime(ret.val, ret'.val)]_vars

\* C2, as the specification words it: two calls in a row on a ready instance
\* return the same snapshot.
C2_SameSnapshot ==
    [][GuardCall => /\ NoOp
                    /\ ret'.val = GetStatus
                    /\ ret'.again => ret'.val = ret.val]_vars

\* The second of two calls in a row on a ready instance that has a callback
\* registered and an entry in errors, made after the clock moved.
C2_Witness ==
    /\ ret.op = "initializeAllModels" /\ ret.again
    /\ ret.val.initializationTime > 0
    /\ Len(statusCallbacks) > 0 /\ Len(errors) > 0

\* C3: with callbacks that return normally and one call of
\* initializeAllModels, the progress values handed to a callback never
\* decrease from one delivery to the next.
C3_ProgressMonotone ==
    [][(/\ \A j \in 1..Len(statusCallbacks) : statusCallbacks[j] = "return"
        /\ Cardinality({r \in Runs : run'[r].pc # "idle"}) <= 1)
       => \A k \in 1..Len(statusCallbacks) :
             (delivered[k] # NoSnapshot /\ delivered'[k] # NoSnapshot)
                => delivered[k].progress <= delivered'[k].progress]_vars

\* C4: a call that ran with both worker handles null resolves with
\* isInitialized true and progress 100.
C4_FallbackCompletes ==
    \A r \in Runs : (run[r].pc = "done" /\ ~run[r].workers) =>
        /\ run[r].result.isInitialized
        /\ run[r].result.progress = 100

\* C5: when the load of exactly one model failed during a call, the snapshot
\* the call resolves with has exactly one errors entry naming that model, the
\* model is not among the loaded ones, every other critical model is, and
\* isInitialized is true.
C5_OneFailureIsolated ==
    \A r \in Runs : (run[r].pc = "done" /\ Cardinality(run[r].failed) = 1) =>
        LET s == run[r].result
            m == CHOOSE x \in run[r].failed : TRUE
        IN /\ Cardinality({k \in 1..Len(s.errors) : s.errors[k].model = m}) = 1
           /\ ~Has(s.modelStats.modelNames, m)
           /\ \A j \in 1..Len(criticalModels) :
                 criticalModels[j] # m => Has(s.modelStats.modelNames, criticalModels[j])
           /\ s.isInitialized

\* C6: makePrediction and batchPredict called while isInitialized is false
\* hand their caller the error "Model not initialized" and change nothing:
\* no field, no callback, no call or background task in flight.
C6_NotInitializedFails ==
    [][(ret'.op \in {"makePrediction", "batchPredict"} /\ ~isInitialized)
       => /\ ~ret'.ok
          /\ ret'.val = ModelNotInitialized
          /\ UNCHANGED <<fields, statusCallbacks, run, bg, micro, timers, delivered, upd,
                         unhandled, batch>>]_vars

\* batchPredict was refused while a call of initializeAllModels was loading
\* models.
C6_Witness ==
    /\ ret.op = "batchPredict" /\ ~ret.ok
    /\ run[1].pc = "loading" /\ Len(loadedModels) > 0

\* C7: batchPredict asks for the predictions in input order, a batch of
\* BatchSize at a time, never asking for one of a later batch before the
\* results of the batch before it were collected, and returns one result per
\* input, in input order, whatever the number of inputs.
C7_BatchOrder ==
    LET n == batch.inputs
        collected == Len(batch.results)
        requested == Len(batch.log)
    IN /\ batch.log = [j \in 1..requested |-> j]
       /\ batch.results = [j \in 1..collected |-> Prediction(j)]
       /\ requested <= collected + BatchSize
       /\ batch.pc = "await" => /\ collected % BatchSize = 0
                                /\ requested = Min(collected + BatchSize, n)
       /\ batch.pc = "done" => collected = n /\ requested = n
       /\ (ret.op = "batchPredict" /\ ret.ok) => /\ batch.pc = "done"
                                                /\ ret.val.results = batch.results

\* batchPredict returned for more inputs than one batch holds, the last
\* batch not a full one.
C7_Witness ==
    /\ ret.op = "batchPredict" /\ ret.ok
    /\ batch.inputs > BatchSize /\ batch.inputs % BatchSize # 0
    /\ Len(ret.val.results) = batch.inputs

\* C8: getModelMetadata called while isInitialized is false fails.
C8_MetadataGuarded ==
    (ret.op = "getModelMetadata" /\ ~isInitialized) => ~ret.ok

\* C9: when a callback throws inside updateStatus, every registered callback
\* is still called for that update, and the exception reaches no caller of
\* updateStatus: no errors entry is caused by a callback.
C9_ThrowIsolated ==
    /\ upd.threw => upd.invoked = 1..upd.n
    /\ \A k \in 1..Len(errors) : errors[k].cause # "callback"

\* C10: what a callback does to the snapshot it was handed changes nothing
\* of what another callback is handed for the same update: each is handed the
\* merged snapshot.
C10_SnapshotIsCopy ==
    \A k \in upd.invoked : upd.seen[k] = upd.merged

\* C11: a call made with a non-empty priorityModels loads exactly the models
\* named there: after a run in which no load failed and nothing was caught,
\* made alone, the loaded set returned is the set of the names passed.
C11_PriorityModelsLoaded ==
    \A r \in Runs :
        (/\ run[r].pc = "done"
         /\ PriorityModelsOf(r) # <<>>
         /\ run[r].failed = {}
         /\ ~run[r].caught
         /\ \A q \in Runs \ {r} : run[q].pc = "idle")
        => LET names == run[r].result.modelStats.modelNames
           IN {names[k] : k \in 1..Len(names)}
              = {PriorityModelsOf(r)[k] : k \in 1..Len(PriorityModelsOf(r))}

\* C12: a call does not resolve before both background tasks of its run have
\* settled: once a call, made alone, has resolved, neither background task of
\* its run is still running and no later step hands a status update to the
\* callbacks.
C12_ResolvesAfterBackground ==
    [][\A r \in Runs :
          (run[r].pc = "done" /\ \A q \in Runs \ {r} : run[q].pc = "idle")
          => /\ bg[r].data # "run"
             /\ bg[r].train # "run"
             /\ upd' = upd]_vars

\* The workers of run r that terminate() has been called on.  Neither the
\* finalize path (lines 103-104) nor the catch (lines 105-113) nor any other
\* statement of the class calls terminate(): a worker once constructed runs
\* for the life of the page.
Terminated(r) == {}

\* C13: every worker constructed for a run has been terminated by the time
\* the call resolves, on the finalize path and on the failure path.
C13_WorkersReleased ==
    \A r \in Runs : run[r].pc = "done" => run[r].created \subseteq Terminated(r)

\* The slots of the object initializeWorkers resolved with for run r that hold
\* a handle: both (line 159), or none (lines 120-123 and the catch of lines
\* 160-164).
Slots(r) == IF run[r].workers THEN {"data", "training"} ELSE {}

\* C14: initializeWorkers resolves with a handle in the slot of every worker
\* it constructed and null in the slot of a worker whose construction threw
\* or was not attempted; without Worker support it constructs nothing.
C14_SlotPerWorker ==
    \A r \in Runs :
        run[r].pc # "idle" => /\ Slots(r) = run[r].created
                              /\ ~workerSupported => run[r].created = {}

\* C15: isInitialized is monotonic: no step of any interleaving of calls,
\* worker messages and timers takes it from true back to false.
C15_InitializedMonotone == [][isInitialized => isInitialized']_vars

\* isInitialized is true while a call is still in flight and another has
\* resolved.
C15_Witness ==
    /\ isInitialized
    /\ \E r \in Runs : InFlight(r)
    /\ \E r \in Runs : run[r].pc = "done"

\* C16: errors is append-only within a run: while a call is in flight, between
\* its reset and its resolution, every step leaves the errors it found as a
\* prefix of the errors it leaves.
C16_ErrorsAppendOnly ==
    [][(\E r \in Runs : InFlight(r))
       => /\ Len(errors) <= Len(errors')
          /\ \A k \in 1..Len(errors) : errors'[k] = errors[k]]_vars

InRange(s) == s = NoSnapshot \/ s.progress \in 0..100
HandlersInRange ==
    \A p \in 0..100 : DataProgress(p) \in 20..50 /\ TrainingProgress(p) \in 60..100

\* C17: progress stays within 0..100: in the field of the instance, in the
\* snapshot every status update hands to the callbacks, and in the snapshot
\* every call of initializeAllModels returns; the handlers map any worker
\* payload within 0..100 into 20..50 and 60..100.
C17_ProgressInRange ==
    /\ progress \in 0..100
    /\ InRange(upd.merged)
    /\ \A r \in Runs : InRange(run[r].result)
    /\ ret.op = "initializeAllModels" => InRange(ret.val)
    /\ HandlersInRange

\* The training worker's last epoch is reported at the upper end of the range.
C17_Witness ==
    /\ workerSupported
    /\ upd.merged # NoSnapshot
    /\ upd.merged.currentStep.label = "Training: Epoch"
    /\ upd.merged.progress = 100
    /\ progress = 100

\* C18: the data progress reported without workers covers the range the
\* worker-driven run covers, with the same end points: the first chunk of the
\* fallback loop is reported at the progress of the data worker's first
\* message and its last chunk at the progress of the worker's last message.
C18_FallbackSameRange ==
    (upd.merged # NoSnapshot /\ upd.merged.currentStep.label = "Loading data: Chunk")
    => /\ upd.merged.currentStep.n = 1
          => upd.merged.progress = DataProgress(DataWorkerProgress(1))
       /\ upd.merged.currentStep.n = TotalChunks
          => upd.merged.progress = DataProgress(DataWorkerProgress(DataWorkerMessages))

C20_EveryWorkerErrorRecorded ==
    \A r \in Runs :
        (run[r].pc = "done" /\ run[r].workers)
        => LET errs == run[r].result.errors
           IN /\ bg[r].dataFault
                 => \E k \in 1..Len(errs) : errs[k] = InitError("data worker")
              /\ bg[r].trainFault
                 => \E k \in 1..Len(errs) : errs[k] = InitError("training worker")

\* C21: no failure of a run surfaces as an unhandled rejection: whenever the
\* background promise of a run rejects, a handler is already attached to it.
C21_NoUnhandledRejection == unhandled = {}

\* C22: in loadModels(names, startProgress, endProgress) with n names, the
\* update sent when the i-th name (1-indexed) completes carries progress
\* startProgress + i * (endProgress - startProgress) / n; for the critical
\* phase, i * 60 / n, and 60 after the last name.
C22_LoadProgressFormula ==
    (upd.merged # NoSnapshot /\ upd.merged.currentStep.label = "Loaded model")
    => \E i \in 1..Len(criticalModels) :
          /\ criticalModels[i] = upd.merged.currentStep.model
          /\ upd.merged.progress * Len(criticalModels) = i * (60 - 0)

C24_ErrorObserverFreesPhase ==
    \A r \in Runs : \A workerType \in {"data", "training"} :
        (/\ bg[r].stopped[workerType] = "error"
         /\ micro = <<>>
         /\ Pending(timers) = {})
        => run[r].pc = "done"

\* C25: there is no timeout on a background request: once a worker has gone
\* silent before its terminal message, its task stays unsettled, the call
\* does not resolve and isInitialized stays false.
C25_HangNeverResolves ==
    \A r \in Runs :
        /\ bg[r].stopped["data"] = "silent"
           => bg[r].data = "run" /\ run[r].pc # "done" /\ ~isInitialized
        /\ bg[r].stopped["training"] = "silent"
           => bg[r].train = "run" /\ run[r].pc # "done" /\ ~isInitialized

\* C26: a worker answers every request with a well-formed stream: progress
\* values within 0..100 that never decrease, nothing after a terminal
\* message, exactly one terminal message (dataLoaded, trainingComplete or
\* error) once a loadData or trainModel request has been worked off, and
\* exactly one error message for a request of unknown type.
C26_WellFormedStreams ==
    LET out == worker.out
        n == Len(out)
        Progress == {"progress", "trainingProgress"}
        Terminal == {"dataLoaded", "trainingComplete", "error"}
    IN /\ \A k \in 1..n : out[k].type \in Progress => out[k].progress \in 0..100
       /\ \A j \in 1..n, k \in 1..n :
             (j < k /\ out[j].type \in Progress /\ out[k].type \in Progress)
             => out[j].progress <= out[k].progress
       /\ \A k \in 1..(n - 1) : out[k].type \notin Terminal
       /\ (worker.pc \in {"done", "failed"} /\ worker.type \in {"loadData", "trainModel"})
          => n >= 1 /\ out[n].type \in Terminal
       /\ (worker.pc # "idle" /\ worker.type = "unknown") => out = <<Message("error", 0)>>

\* C27: at most one initialization run is active: a call made while another
\* call is in flight leaves errors, progress and the loaded set of the run in
\* progress alone, and starts no second set of background tasks.
C27_SingleRun ==
    [][/\ \A r \in Runs :
             (run[r].pc = "idle" /\ run'[r].pc # "idle"
              /\ \E q \in Runs \ {r} : InFlight(q))
             => /\ errors' = errors
                /\ progress' = progress
                /\ loadedModels' = loadedModels
       /\ ~(\A r \in Runs : bg'[r].state = "pending")]_vars

\* C28: whenever a run sets isInitialized to true, on the finalize path and
\* in the catch alike, every callback registered at that moment is handed a
\* snapshot with isInitialized true.
C28_ReadinessDelivered ==
    [][(~isInitialized /\ isInitialized')
       => \A k \in 1..Len(statusCallbacks) :
             delivered'[k] # NoSnapshot /\ delivered'[k].isInitialized]_vars

\* C29: isInitialized implies progress = 100, in the fields of the instance,
\* in every snapshot handed to the callbacks and in every snapshot a call of
\* initializeAllModels resolves with.
C29_ReadyMeansComplete ==
    /\ isInitialized => progress = 100
    /\ (upd.merged # NoSnapshot /\ upd.merged.isInitialized) => upd.merged.progress = 100
    /\ \A r \in Runs :
          (run[r].result # NoSnapshot /\ run[r].result.isInitialized)
          => run[r].result.progress = 100

\* C30: the loaded set holds critical models only, each once, so the
\* loadedModels count of a snapshot never exceeds its totalModels, whatever
\* priorityModels a call was given and however calls, timers and worker
\* messages interleave.
C30_LoadedWithinCritical ==
    /\ \A k \in 1..Len(loadedModels) : Has(criticalModels, loadedModels[k])
    /\ \A j \in 1..Len(loadedModels), k \in 1..Len(loadedModels) :
          loadedModels[j] = loadedModels[k] => j = k
    /\ GetStatus.loadedModels <= GetStatus.totalModels
    /\ upd.merged # NoSnapshot => upd.merged.loadedModels <= upd.merged.totalModels
    /\ \A r \in Runs :
          run[r].result # NoSnapshot => run[r].result.loadedModels <= run[r].result.totalModels

\* A call given priorityModels has resolved with every critical model
\* loaded.
C30_Witness ==
    \E r \in Runs :
        /\ PriorityModelsOf(r) # <<>>
        /\ run[r].pc = "done"
        /\ run[r].result.loadedModels = run[r].result.totalModels
        /\ GetStatus.loadedModels = GetStatus.totalModels

====
